---- MODULE Spec2Model ----
(***************************************************************************)
(* ChoreBot: the fairness allocator, the completion tracker and the        *)
(* ad-hoc assignment path, in the two weekly iterations of the bot:        *)
(*   "sqlite"  src/unnamed/part_000        (rows in chore_assignments)     *)
(*   "json"    src/index.js lines 26-1102  (array in data/history.json)    *)
(*                                                                         *)
(* Time.  An instant is a number of minutes since Sunday 2025-12-28 00:00  *)
(* local time.  The clock of the model visits Monday 12:00 and Thursday    *)
(* 12:00 of successive weeks: Mon 2025-12-29, Thu 2026-01-01,              *)
(* Mon 2026-01-05, Thu 2026-01-08, ...  `now` counts these instants from   *)
(* 0.  The first two lie in the same calendar week and in different        *)
(* years.                                                                  *)
(*                                                                         *)
(* Credit is counted in sixths of a chore, so that 1, 1/2 and 1/3 are the  *)
(* integers 6, 3 and 2.                                                    *)
(*                                                                         *)
(* Spec runs the handlers one at a time, each as one step, and every read  *)
(* of the store succeeds.  SpecConc splits the handlers at the awaits of   *)
(* their store reads and writes and lets them interleave within one clock  *)
(* instant; there a read of history.json can fail.                         *)
(***************************************************************************)
EXTENDS Integers, Sequences, FiniteSets, TLC

VARIABLES
    version,               \* which iteration of the bot is running
    config,                \* config.json: [roommates, chores]
    now,                   \* index of the current clock instant
    store,                 \* the ledger: table rows / history.json array
    sharedTaskSelections,  \* the Map of in-progress shared-task selections
    buttons,               \* completion buttons the bot has posted
    inflight,              \* handlers suspended at an await point
    started,               \* how many interleaved handlers have been started
    probe                  \* a function call made on its own: inputs, result

vars == <<version, config, now, store, sharedTaskSelections, buttons, inflight, started,
          probe>>

---------------------------------------------------------------------------
(* Bounds of the model *)

MaxRoster == 3
MaxScheduled == 2
MaxNow == 1
MaxRecords == 2
MaxRecordsFullRoster == 1
MaxConfirmations == 3
MaxOpenDialogs == 1
MaxInflight == 2
MaxHandlers == 3

---------------------------------------------------------------------------
(* Values *)

Undefined == "undefined"
NoUser == ""
Nothing == <<>>
Just(x) == <<x>>

Versions == {"sqlite", "json"}

RosterOrder == <<"Helena", "Kyle", "Jimmy", "Max", "Zo">>

People == {RosterOrder[i] : i \in 1..MaxRoster}

ChoreTypes == {"trash", "dishwasher"}

Range(s) == {s[i] : i \in 1..Len(s)}

---------------------------------------------------------------------------
(* The calendar *)

MinutesPerDay == 24 * 60

\* the model's clock instants: Monday 12:00 and Thursday 12:00 of each week
Instant(t) ==
    LET day == 7 * (t \div 2) + (IF t % 2 = 0 THEN 1 ELSE 4)
    IN  day * MinutesPerDay + 12 * 60

DayOf(m) == m \div MinutesPerDay

\* dayjs .day(): 0 = Sunday .. 6 = Saturday
DayOfWeek(m) == DayOf(m) % 7

\* calendar year and month of an instant (2025-12-28 .. 2026-03-31)
YearOf(m) == IF DayOf(m) < 4 THEN 2025 ELSE 2026

MonthOf(m) ==
    IF DayOf(m) < 4 THEN 12
    ELSE IF DayOf(m) < 35 THEN 1
    ELSE IF DayOf(m) < 63 THEN 2
    ELSE 3

\* the calendar (ISO, Monday-based) week an instant lies in, as a running index
CalendarWeek(m) == (DayOf(m) + 6) \div 7

\* dayjs format with only the utc and timezone plugins: the tokens YYYY and MM
\* are replaced, bracketed text is copied, and every other character (the week
\* token W is not a token of the core formatter) is copied as it stands.
FormatWeek(m) == <<YearOf(m), "-", "W", "WW">>

FormatMonth(v, m) ==
    IF v = "sqlite" THEN <<YearOf(m), "-", "M", MonthOf(m)>>
    ELSE <<YearOf(m), "-", MonthOf(m), "MM">>

---------------------------------------------------------------------------
(* Configuration: config.json is read once at startup and never changed *)

\* title.toLowerCase() as its words; includes(sub) is true when sub occurs
\* inside one of them
Contains(word, sub) ==
    \/ word = sub
    \/ <<word, sub>> \in {<<"dishwasher", "dish">>, <<"dishes", "dish">>}

TitleIncludes(chore, sub) == \E w \in chore.lower : Contains(w, sub)

\* the chores of the household: one that is triggered by hand (weekday -1)
\* and the scheduled ones
ManualChore ==
    [title |-> "Empty kitchen trash can and replace bag",
     lower |-> {"empty", "kitchen", "trash", "can", "and", "replace", "bag"},
     due   |-> [weekday |-> -1, hour |-> 0, minute |-> 0]]

ScheduledChores ==
    << [title |-> "Vacuum downstairs",
        lower |-> {"vacuum", "downstairs"},
        due   |-> [weekday |-> 0, hour |-> 12, minute |-> 0]],
       [title |-> "Take in trash bins to the yard",
        lower |-> {"take", "in", "trash", "bins", "to", "the", "yard"},
        due   |-> [weekday |-> 3, hour |-> 20, minute |-> 0]],
       [title |-> "Vacuum upstairs",
        lower |-> {"vacuum", "upstairs"},
        due   |-> [weekday |-> 0, hour |-> 13, minute |-> 0]],
       [title |-> "Clean the bathroom",
        lower |-> {"clean", "the", "bathroom"},
        due   |-> [weekday |-> 6, hour |-> 10, minute |-> 30]] >>

ChoreList(k) == <<ManualChore>> \o SubSeq(ScheduledChores, 1, k)

Roster(n) == SubSeq(RosterOrder, 1, n)

\* the configurations the model starts from: up to MaxRoster roommates and
\* up to MaxScheduled scheduled chores
Configs ==
    {[roommates |-> Roster(n), chores |-> ChoreList(k)] :
        n \in 0..MaxRoster, k \in 1..MaxScheduled}

\* how many records the model lets the handlers create: with the largest
\* roster the ledger is explored up to MaxRecordsFullRoster records only
RecordBound(cfg) ==
    IF Len(cfg.roommates) < MaxRoster THEN MaxRecords ELSE MaxRecordsFullRoster

\* the user who types /chore ... and so is the userId of the dialogs
Initiator == RosterOrder[1]

---------------------------------------------------------------------------
(* Assignment records *)

\* 2025-08-01 is day -149 of the model's calendar
SeedInstant(day, hour, minute) == (day - 150) * MinutesPerDay + hour * 60 + minute

SeedRow(id, week, chore, assignedTo, date, dueDate, completedDate, isShared) ==
    [id |-> id, month |-> <<2025, "-", "M", 8>>, week |-> <<2025, "-", "W", week>>,
     chore |-> chore, assignedTo |-> assignedTo, date |-> date, dueDate |-> dueDate,
     completed |-> TRUE, completedBy |-> assignedTo,
     completedDate |-> Just(completedDate), isShared |-> isShared,
     triggeredBy |-> NoUser, createdAt |-> 0]

seedData ==
    << SeedRow(1, "31", "Empty kitchen trash can and replace bag", <<"Kyle">>,
               SeedInstant(1, 10, 0), Nothing, SeedInstant(1, 10, 30), FALSE),
       SeedRow(2, "32", "Empty kitchen trash can and replace bag", <<"Kyle">>,
               SeedInstant(7, 9, 0), Nothing, SeedInstant(7, 9, 30), FALSE),
       SeedRow(3, "31", "Vacuum downstairs", <<"Kyle">>,
               SeedInstant(3, 11, 30), Just(SeedInstant(3, 12, 0)),
               SeedInstant(3, 11, 45), FALSE),
       SeedRow(4, "31", "Empty kitchen trash can and replace bag", <<"Jimmy">>,
               SeedInstant(3, 14, 0), Nothing, SeedInstant(3, 14, 15), FALSE),
       SeedRow(5, "32", "Take in trash bins to the yard", <<"Jimmy", "Max">>,
               SeedInstant(6, 19, 30), Just(SeedInstant(6, 20, 0)),
               SeedInstant(6, 19, 50), TRUE),
       SeedRow(6, "31", "Vacuum upstairs", <<"Zo">>,
               SeedInstant(3, 12, 30), Just(SeedInstant(3, 13, 0)),
               SeedInstant(3, 12, 45), FALSE) >>

\* the store right after startup: initializeSeedData fills an empty table;
\* the JSON file does not exist yet and loadHistory reads it as []
InitialStore(v) == IF v = "sqlite" THEN seedData ELSE <<>>

\* rows created since startup (the model bounds these, not the seed rows)
Created(v, s) == Len(s) - Len(InitialStore(v))

\* loadHistory: the rows as objects.  The model keeps the rows in insertion
\* order; where the order of the loaded array matters (Array.find) it is
\* taken from LoadOrderFirst below.
loadHistory(s) == s

\* saveAssignment (INSERT, the table assigns the next id and created_at) and
\* history.push (the JSON array has no ids)
saveAssignment(v, s, a, t) ==
    IF v = "sqlite"
    THEN Append(s, [a EXCEPT !.id = Len(s) + 1, !.createdAt = t])
    ELSE Append(s, a)

RECURSIVE saveAll(_, _, _, _)
saveAll(v, s, as, t) ==
    IF as = <<>> THEN s ELSE saveAll(v, saveAssignment(v, s, Head(as), t), Tail(as), t)

---------------------------------------------------------------------------
(* Due-date calculator *)

\* a variant without the rollover to the next week
nextDueFromNoRollover(due, weekOffset, nowM, nowS) ==
    LET targetWeek == nowM + weekOffset * 7 * MinutesPerDay
    IN  Just((DayOf(targetWeek) - DayOfWeek(targetWeek) + due.weekday)
                 * MinutesPerDay + due.hour * 60 + due.minute)

\* getNextDueDate with dayjs() = minute nowM and nowS seconds.  The result is
\* a whole minute: .second(0).  nextDue.isBefore(now) compares to the second.
nextDueFrom(due, weekOffset, nowM, nowS) ==
    IF due.weekday = -1 THEN Nothing
    ELSE LET targetWeek == nowM + weekOffset * 7 * MinutesPerDay
             nextDue    == (DayOf(targetWeek) - DayOfWeek(targetWeek) + due.weekday)
                               * MinutesPerDay + due.hour * 60 + due.minute
         IN  IF weekOffset = 0 /\ (nextDue < nowM \/ (nextDue = nowM /\ nowS > 0))
             THEN Just(nextDue + 7 * MinutesPerDay)
             ELSE Just(nextDue)

\* the clock instants of the model are whole minutes
getNextDueDate(due, weekOffset, t) == nextDueFrom(due, weekOffset, Instant(t), 0)

---------------------------------------------------------------------------
(* Fairness allocator *)

\* the records findNextAssignee counts: those stamped with the current month
monthHistory(v, history, t) ==
    SelectSeq(history, LAMBDA h : h.month = FormatMonth(v, Instant(t)))

\* credit one record gives each of its assignees, in sixths of a chore:
\* the SQLite version gives 0.5 for a shared record and 1 otherwise, the
\* JSON version counts monthlyCounts[id]++ for every assignee
creditPerPerson(v, h) ==
    IF v = "sqlite"
    THEN (IF h.isShared \/ Len(h.assignedTo) > 1 THEN 3 ELSE 6)
    ELSE 6

RECURSIVE monthlyCount(_, _, _)
monthlyCount(v, mh, id) ==
    IF mh = <<>> THEN 0
    ELSE monthlyCount(v, Tail(mh), id)
           + Cardinality({i \in 1..Len(Head(mh).assignedTo) : Head(mh).assignedTo[i] = id})
               * creditPerPerson(v, Head(mh))

\* monthlyCounts, keyed by the slackIds of the roster
monthlyCounts(v, roommates, history, t) ==
    [id \in Range(roommates) |-> monthlyCount(v, monthHistory(v, history, t), id)]

\* Math.min(...Object.values(monthlyCounts)); only used for a non-empty roster
minCount(counts) ==
    CHOOSE m \in {counts[id] : id \in DOMAIN counts} :
        \A id \in DOMAIN counts : m <= counts[id]

\* a variant that does not filter by the minimum
candidatesWholeRoster(v, roommates, history, t) == roommates

candidates(v, roommates, history, t) ==
    LET counts == monthlyCounts(v, roommates, history, t)
    IN  IF roommates = <<>> THEN <<>>
        ELSE SelectSeq(roommates, LAMBDA r : counts[r] = minCount(counts))

\* Math.floor(Math.random() * n): any index 0..n-1; for n = 0 the index is 0
randomIndex(n) == IF n = 0 THEN {0} ELSE 0..(n - 1)

\* a variant that returns the first person of the household list when there
\* is no candidate
findNextAssigneeOrFirst(v, roommates, history, t) ==
    LET c == candidates(v, roommates, history, t)
    IN  {IF i + 1 \in DOMAIN c THEN c[i + 1] ELSE RosterOrder[1] : i \in randomIndex(Len(c))}

\* the roommates findNextAssignee can return; candidates[0] of an empty
\* array is undefined
findNextAssignee(v, roommates, history, t) ==
    LET c == candidates(v, roommates, history, t)
    IN  {IF i + 1 \in DOMAIN c THEN c[i + 1] ELSE Undefined : i \in randomIndex(Len(c))}

\* a variant of the loop condition that allows one more attempt
retryAgainOneMore(assignee, attempts, assignedPeopleThisWeek, n) ==
    assignee \in assignedPeopleThisWeek /\ attempts < n + 1

\* assignedPeopleThisWeek.has(assignee.slackId) && attempts < config.roommates.length
retryAgain(assignee, attempts, assignedPeopleThisWeek, n) ==
    assignee \in assignedPeopleThisWeek /\ attempts < n

\* the while loop of assignChores: redraw while the drawn person already has a
\* chore in this run and attempts < config.roommates.length.  The set of
\* people the loop can end with, given the first draw.
RECURSIVE retryLoop(_, _, _, _, _)
retryLoop(assignee, attempts, assignedPeopleThisWeek, draws, n) ==
    IF retryAgain(assignee, attempts, assignedPeopleThisWeek, n)
    THEN UNION {retryLoop(a, attempts + 1, assignedPeopleThisWeek, draws, n) : a \in draws}
    ELSE {assignee}

newAssignment(v, t, chore, assignee) ==
    [id |-> 0, month |-> FormatMonth(v, Instant(t)), week |-> FormatWeek(Instant(t)),
     chore |-> chore.title, assignedTo |-> <<assignee>>, date |-> Instant(t),
     dueDate |-> getNextDueDate(chore.due, 0, t), completed |-> FALSE,
     completedBy |-> <<>>, completedDate |-> Nothing, isShared |-> FALSE,
     triggeredBy |-> NoUser, createdAt |-> 0]

\* "already completed this week": the SQLite version searches all records of
\* the week, the JSON version searches existingAssignments, which holds the
\* week's records that are not completed
alreadyCompletedThisWeek(v, weekRecords, chore) ==
    LET searched == IF v = "sqlite" THEN weekRecords
                    ELSE SelectSeq(weekRecords, LAMBDA h : ~h.completed)
    IN  \E i \in 1..Len(searched) :
            searched[i].chore = chore.title /\ searched[i].completed

\* a variant that treats no chore as manually triggered
isManualOnlyNever(chore) == FALSE

\* if (chore.due.weekday === -1) continue
isManualOnly(chore) == chore.due.weekday = -1

\* the for loop over config.chores from chore i on.  The result is the set of
\* runs the random draws allow: [ok, assignments], ok = FALSE when the run
\* ends with the TypeError of reading slackId of undefined.
RECURSIVE choreLoop(_, _, _, _, _, _, _, _)
choreLoop(v, cfg, t, weekRecords, i, history, assignedPeopleThisWeek, assignments) ==
    IF i > Len(cfg.chores) THEN {[ok |-> TRUE, assignments |-> assignments]}
    ELSE LET chore == cfg.chores[i] IN
      IF isManualOnly(chore) \/ alreadyCompletedThisWeek(v, weekRecords, chore)
      THEN choreLoop(v, cfg, t, weekRecords, i + 1, history,
                     assignedPeopleThisWeek, assignments)
      ELSE LET draws  == findNextAssignee(v, cfg.roommates, history, t)
               finals == UNION {retryLoop(d, 0, assignedPeopleThisWeek, draws,
                                          Len(cfg.roommates)) : d \in draws}
           IN  IF Undefined \in finals
               THEN {[ok |-> FALSE, assignments |-> assignments]}
               ELSE UNION {
                      LET a == newAssignment(v, t, chore, p)
                      IN  choreLoop(v, cfg, t, weekRecords, i + 1,
                                    IF v = "json" THEN Append(history, a) ELSE history,
                                    assignedPeopleThisWeek \cup {p},
                                    Append(assignments, a))
                      : p \in finals }

\* what a caller can see of a record
recKey(h) == [week |-> h.week, chore |-> h.chore, assignedTo |-> h.assignedTo]

recKeys(hs) == [i \in 1..Len(hs) |-> recKey(hs[i])]

\* a variant of the early-return test that never returns the existing records
returnsExistingNever(incompleteAssignments, isManual) == FALSE

\* if (incompleteAssignments.length > 0 && !isManual) return incompleteAssignments
returnsExisting(incompleteAssignments, isManual) ==
    Len(incompleteAssignments) > 0 /\ ~isManual

\* assignChores(isManual) run on store s at instant t: the possible outcomes
\* [store, ret, rows, outcome]
assignChores(v, cfg, s, t, isManual) ==
    LET history              == loadHistory(s)
        currentWeek          == FormatWeek(Instant(t))
        allWeekAssignments   == SelectSeq(history, LAMBDA h : h.week = currentWeek)
        incompleteAssignments == SelectSeq(allWeekAssignments, LAMBDA h : ~h.completed)
        scheduledChores      == SelectSeq(cfg.chores, LAMBDA c : c.due.weekday # -1)
        completedScheduledChores ==
            SelectSeq(scheduledChores, LAMBDA c :
                \E i \in 1..Len(allWeekAssignments) :
                    allWeekAssignments[i].chore = c.title /\ allWeekAssignments[i].completed)
    IN  IF returnsExisting(incompleteAssignments, isManual)
        THEN {[store |-> s, ret |-> recKeys(incompleteAssignments), rows |-> 0,
               outcome |-> "existing"]}
        ELSE IF v = "sqlite" /\ Len(completedScheduledChores) >= Len(scheduledChores)
        THEN {[store |-> s, ret |-> <<>>, rows |-> 0, outcome |-> "allCompleted"]}
        ELSE { IF r.ok
               THEN [store |-> saveAll(v, s, r.assignments, t),
                     ret |-> recKeys(r.assignments), rows |-> Len(r.assignments),
                     outcome |-> "assigned"]
               ELSE \* the rows inserted before the error stay; the JSON
                    \* version has not reached saveHistory
                    [store |-> IF v = "sqlite" THEN saveAll(v, s, r.assignments, t) ELSE s,
                     ret |-> <<>>,
                     rows |-> IF v = "sqlite" THEN Len(r.assignments) ELSE 0,
                     outcome |-> "error"]
               : r \in choreLoop(v, cfg, t, allWeekAssignments, 1, history, {}, <<>>) }

---------------------------------------------------------------------------
(* Ad-hoc assignments: /chore trash is full, solo or shared *)

MaxSelected == 3

searchWord(choreType) == IF choreType = "trash" THEN "trash" ELSE "dish"

\* a variant that takes the first chore of the configuration when no title
\* matches
findChoreOrFirst(cfg, choreType) ==
    LET hits == {i \in 1..Len(cfg.chores) : TitleIncludes(cfg.chores[i], searchWord(choreType))}
    IN  IF hits = {} THEN 1 ELSE CHOOSE i \in hits : \A j \in hits : i <= j

\* config.chores.find(c => c.title.toLowerCase().includes(...)): the index of
\* the first match, 0 when there is none
findChore(cfg, choreType) ==
    LET hits == {i \in 1..Len(cfg.chores) : TitleIncludes(cfg.chores[i], searchWord(choreType))}
    IN  IF hits = {} THEN 0 ELSE CHOOSE i \in hits : \A j \in hits : i <= j

\* handleChoreAssignment: [store, ret, rows, outcome, rec], rec the record it
\* saves
handleChoreAssignment(v, cfg, s, t, choreType, assignees, triggeredBy) ==
    LET c == findChore(cfg, choreType) IN
    IF c = 0
    THEN [store |-> s, ret |-> <<>>, rows |-> 0, outcome |-> "noChore", rec |-> Nothing]
    ELSE IF Undefined \in Range(assignees)
    THEN [store |-> s, ret |-> <<>>, rows |-> 0, outcome |-> "error", rec |-> Nothing]
    ELSE LET a == [id |-> 0, month |-> FormatMonth(v, Instant(t)),
                   week |-> FormatWeek(Instant(t)), chore |-> cfg.chores[c].title,
                   assignedTo |-> assignees, date |-> Instant(t), dueDate |-> Nothing,
                   completed |-> FALSE, completedBy |-> <<>>, completedDate |-> Nothing,
                   isShared |-> FALSE, triggeredBy |-> triggeredBy, createdAt |-> 0]
         IN  [store |-> saveAssignment(v, s, a, t), ret |-> <<recKey(a)>>, rows |-> 1,
              outcome |-> "assigned", rec |-> Just(a)]

\* the toggle of app.action(/select_U\w+/)
toggleSelection(selectedUsers, selectedUserId) ==
    IF selectedUserId \in Range(selectedUsers)
    THEN SelectSeq(selectedUsers, LAMBDA id : id # selectedUserId)
    ELSE IF Len(selectedUsers) < MaxSelected
    THEN Append(selectedUsers, selectedUserId)
    ELSE selectedUsers

---------------------------------------------------------------------------
(* Completion tracker *)

\* a variant that accepts a confirmation from anyone
isAssigneeAnyone(h, user) == TRUE

\* h.assignedTo.includes(user)
isAssignee(h, user) == user \in Range(h.assignedTo)

\* a variant of the filter that keeps completed records
userAssignmentsWithCompleted(history, t, user) ==
    {i \in 1..Len(history) :
        /\ history[i].week = FormatWeek(Instant(t))
        /\ isAssignee(history[i], user)}

\* the filter of app.message('done'): the user's incomplete assignments of
\* the current week, as indices into the loaded history
userAssignments(history, t, user) ==
    {i \in 1..Len(history) :
        /\ history[i].week = FormatWeek(Instant(t))
        /\ ~history[i].completed
        /\ isAssignee(history[i], user)}

\* a variant of the predicate that does not compare the chore title
buttonMatchesAnyChore(h, week, chore, user) ==
    h.week = week /\ ~h.completed /\ isAssignee(h, user)

\* the predicate of history.find in app.action(/complete_\d+/)
buttonMatches(h, week, chore, user) ==
    h.week = week /\ h.chore = chore /\ ~h.completed /\ isAssignee(h, user)

\* Array.find returns the first match in the order loadHistory returns: the
\* file order for JSON; ORDER BY created_at DESC for SQLite, where rows with
\* equal created_at come in no defined order
loadOrderFirst(v, history, matches) ==
    IF v = "json"
    THEN {i \in matches : \A j \in matches : i <= j}
    ELSE {i \in matches : \A j \in matches : history[i].createdAt >= history[j].createdAt}

\* a variant that toggles: a repeated confirmation withdraws the id
pushCompletedByToggle(v, completedBy, user) ==
    IF user \in Range(completedBy)
    THEN SelectSeq(completedBy, LAMBDA id : id # user)
    ELSE Append(completedBy, user)

\* completedBy after the user's confirmation: the SQLite version pushes only
\* an id that is not yet included, the JSON version pushes always
pushCompletedBy(v, completedBy, user) ==
    IF v = "sqlite" /\ user \in Range(completedBy)
    THEN completedBy
    ELSE Append(completedBy, user)

\* a variant with some in place of every
allCompleteSome(assignedTo, completedBy) ==
    \E i \in 1..Len(assignedTo) : assignedTo[i] \in Range(completedBy)

\* allAssignees.every(id => completedBy.includes(id))
allComplete(assignedTo, completedBy) ==
    \A i \in 1..Len(assignedTo) : assignedTo[i] \in Range(completedBy)

\* a variant that marks the record completed at the first confirmation
markDoneAtOnce(v, h, user, t) ==
    [h EXCEPT !.completedBy = pushCompletedBy(v, h.completedBy, user),
              !.completed = TRUE, !.completedDate = Just(Instant(t))]

\* the fields the handler writes for record h (both handlers, both versions):
\* completedBy always, completed and completedDate only when allComplete
markDone(v, h, user, t) ==
    LET cb == pushCompletedBy(v, h.completedBy, user)
    IN  IF allComplete(h.assignedTo, cb)
        THEN [h EXCEPT !.completedBy = cb, !.completed = TRUE,
                       !.completedDate = Just(Instant(t))]
        ELSE [h EXCEPT !.completedBy = cb]

\* the write that ends a completion handler, for record i of the history the
\* handler loaded, changed to h.  JSON: saveHistory(history) rewrites the file
\* with the handler's array.  SQLite: updateAssignment(id, updates) sets, in
\* the row with that id, the columns named in updates.
writeRecord(v, s, history, i, h) ==
    IF v = "json" THEN [history EXCEPT ![i] = h]
    ELSE [k \in 1..Len(s) |->
            IF s[k].id # h.id THEN s[k]
            ELSE IF h.completed
            THEN [s[k] EXCEPT !.completedBy = h.completedBy, !.completed = TRUE,
                              !.completedDate = h.completedDate]
            ELSE [s[k] EXCEPT !.completedBy = h.completedBy]]

\* a variant that takes a message from any channel
isDirectMessageAlways(channelType) == TRUE

\* message.channel_type !== 'im' makes the handler return
isDirectMessage(channelType) == channelType = "im"

\* a variant of the handler that never asks: with several pending records it
\* marks one of them
doneMessageNoPrompt(v, s, t, user, channelType) ==
    LET history == loadHistory(s)
        ua      == userAssignments(history, t, user)
    IN  IF ~isDirectMessage(channelType) \/ ua = {}
        THEN {[store |-> s, buttons |-> {}, outcome |-> "noPending", rec |-> Nothing]}
        ELSE {[store |-> writeRecord(v, s, history, i, markDone(v, history[i], user, t)),
               buttons |-> {}, outcome |-> "updated",
               rec |-> Just(markDone(v, history[i], user, t))] : i \in ua}

\* app.message('done') from user in a channel of type channelType, run on
\* store s at instant t: the possible results [store, buttons, outcome, rec],
\* where buttons are the completion buttons of the prompt it posts and rec is
\* the record it writes
doneMessage(v, s, t, user, channelType) ==
    IF ~isDirectMessage(channelType)
    THEN {[store |-> s, buttons |-> {}, outcome |-> "ignored", rec |-> Nothing]}
    ELSE LET history == loadHistory(s)
             ua      == userAssignments(history, t, user)
         IN  IF ua = {}
             THEN {[store |-> s, buttons |-> {}, outcome |-> "noPending", rec |-> Nothing]}
             ELSE IF Cardinality(ua) = 1
             THEN {[store |-> writeRecord(v, s, history, i, markDone(v, history[i], user, t)),
                    buttons |-> {}, outcome |-> "updated",
                    rec |-> Just(markDone(v, history[i], user, t))] : i \in ua}
             ELSE {[store |-> s,
                    buttons |-> {<<user, history[i].week, history[i].chore>> : i \in ua},
                    outcome |-> "prompt", rec |-> Nothing]}

\* app.action(/complete_\d+/): the click of user on the button (week, chore)
completeAction(v, s, t, user, week, chore) ==
    LET history == loadHistory(s)
        matches == {i \in 1..Len(history) : buttonMatches(history[i], week, chore, user)}
    IN  IF matches = {}
        THEN {[store |-> s, buttons |-> {}, outcome |-> "noMatch", rec |-> Nothing]}
        ELSE {[store |-> writeRecord(v, s, history, i, markDone(v, history[i], user, t)),
               buttons |-> {}, outcome |-> "updated",
               rec |-> Just(markDone(v, history[i], user, t))]
              : i \in loadOrderFirst(v, history, matches)}

\* the longest completedBy list of a store (the JSON version pushes an id
\* again at every repeated confirmation; the model bounds the length)
RECURSIVE maxConfirmations(_)
maxConfirmations(s) ==
    IF s = <<>> THEN 0
    ELSE LET m == maxConfirmations(Tail(s))
         IN  IF Len(Head(s).completedBy) > m THEN Len(Head(s).completedBy) ELSE m

---------------------------------------------------------------------------
(* State machine: handlers run one at a time *)

ChannelTypes == {"im", "channel"}

Init ==
    /\ version \in Versions
    /\ config \in Configs
    /\ now = 0
    /\ store = InitialStore(version)
    /\ sharedTaskSelections = <<>>
    /\ buttons = {}
    /\ inflight = {}
    /\ started = 0
    /\ probe = Nothing

\* time passes between handlers
Tick ==
    /\ now < MaxNow
    /\ now' = now + 1
    /\ UNCHANGED <<version, config, store, sharedTaskSelections, buttons, inflight, started, probe>>

\* the weekly cron and initializeThisWeek (isManual = FALSE), /chore assign
\* (isManual = TRUE)
AssignChores(isManual) ==
    /\ \E r \in assignChores(version, config, store, now, isManual) :
          /\ Created(version, r.store) <= RecordBound(config)
          /\ store' = r.store
    /\ UNCHANGED <<version, config, now, sharedTaskSelections, buttons, inflight, started, probe>>

\* app.action('solo_task')
SoloTask(userId, choreType) ==
    /\ \E assignee \in findNextAssignee(version, config.roommates, loadHistory(store), now) :
          LET r == handleChoreAssignment(version, config, store, now, choreType,
                                         <<assignee>>, userId)
          IN  /\ Created(version, r.store) <= RecordBound(config)
              /\ store' = r.store
    /\ UNCHANGED <<version, config, now, sharedTaskSelections, buttons, inflight, started, probe>>

selectionKey(userId, choreType) == <<userId, choreType>>

\* sharedTaskSelections.get(selectionKey) || []
getSelection(selections, key) ==
    IF key \in DOMAIN selections THEN selections[key] ELSE <<>>

\* app.action(/select_U\w+/): a click on the button of roommate selectedUserId
SelectUser(userId, choreType, selectedUserId) ==
    LET key == selectionKey(userId, choreType)
        updated == toggleSelection(getSelection(sharedTaskSelections, key), selectedUserId)
    IN  /\ Created(version, store) < RecordBound(config)
        /\ key \in DOMAIN sharedTaskSelections
              \/ Cardinality(DOMAIN sharedTaskSelections) < MaxOpenDialogs
        /\ sharedTaskSelections' =
              [k \in DOMAIN sharedTaskSelections \cup {key} |->
                  IF k = key THEN updated ELSE sharedTaskSelections[k]]
        /\ UNCHANGED <<version, config, now, store, buttons, inflight, started, probe>>

\* a variant of the test that lets an empty selection through
nothingSelectedNever(selectedUserIds) == FALSE

\* if (selectedUserIds.length === 0): reply and return
nothingSelected(selectedUserIds) == Len(selectedUserIds) = 0

\* app.action('confirm_shared_assignment')
ConfirmShared(userId, choreType) ==
    LET key == selectionKey(userId, choreType)
        selectedUserIds == getSelection(sharedTaskSelections, key)
    IN  /\ IF nothingSelected(selectedUserIds)
           THEN UNCHANGED <<store, sharedTaskSelections, probe>>
           ELSE LET r == handleChoreAssignment(version, config, store, now, choreType,
                                               selectedUserIds, userId)
                IN  /\ Created(version, r.store) <= RecordBound(config)
                    /\ store' = r.store
                    /\ sharedTaskSelections' =
                          [k \in DOMAIN sharedTaskSelections \ {key} |-> sharedTaskSelections[k]]
        /\ UNCHANGED <<version, config, now, buttons, inflight, started, probe>>

\* app.message('done')
DoneDM(user, channelType) ==
    /\ \E r \in doneMessage(version, store, now, user, channelType) :
          /\ maxConfirmations(r.store) <= MaxConfirmations
          /\ store' = r.store
          /\ buttons' = buttons \cup r.buttons
    /\ UNCHANGED <<version, config, now, sharedTaskSelections, inflight, started, probe>>

\* app.action(/complete_\d+/): a click on a button the bot posted to the user
CompleteButton(user, week, chore) ==
    /\ <<user, week, chore>> \in buttons
    /\ \E r \in completeAction(version, store, now, user, week, chore) :
          /\ maxConfirmations(r.store) <= MaxConfirmations
          /\ store' = r.store
    /\ UNCHANGED <<version, config, now, sharedTaskSelections, buttons, inflight, started, probe>>

Next ==
    \/ Tick
    \/ \E isManual \in BOOLEAN : AssignChores(isManual)
    \/ \E ty \in ChoreTypes : SoloTask(Initiator, ty)
    \/ \E ty \in ChoreTypes, sel \in Range(config.roommates) :
           SelectUser(Initiator, ty, sel)
    \/ \E ty \in ChoreTypes : ConfirmShared(Initiator, ty)
    \/ \E u \in People, ct \in ChannelTypes : DoneDM(u, ct)
    \/ \E b \in buttons : CompleteButton(b[1], b[2], b[3])

Spec == Init /\ [][Next]_vars

\* the same handlers without /chore assign, the forced reassignment
NextUnforced ==
    \/ Tick
    \/ AssignChores(FALSE)
    \/ \E ty \in ChoreTypes : SoloTask(Initiator, ty)
    \/ \E ty \in ChoreTypes, sel \in Range(config.roommates) :
           SelectUser(Initiator, ty, sel)
    \/ \E ty \in ChoreTypes : ConfirmShared(Initiator, ty)
    \/ \E u \in People, ct \in ChannelTypes : DoneDM(u, ct)
    \/ \E b \in buttons : CompleteButton(b[1], b[2], b[3])

SpecUnforced == Init /\ [][NextUnforced]_vars

---------------------------------------------------------------------------
(* State machine: handlers interleave.  A handler runs without interruption
   from one await to the next; inflight holds the handlers that wait for
   their read or write of the store to complete. *)

\* what a read of the store can give a handler: fs.readJson of the JSON
\* version can fail, and loadHistory then returns []
loadResults(v, s) == IF v = "json" THEN {loadHistory(s), <<>>} ELSE {loadHistory(s)}

CreatingOps == {"solo", "shared", "assign"}

\* the model runs MaxHandlers handlers, at most MaxInflight of them at a time
FreeSlots == started < MaxHandlers /\ Cardinality(inflight) < MaxInflight

\* a handler that waits: for loadHistory to return (pc = "load") or for its
\* write to be applied (pc = "write"): the whole file of the JSON version,
\* the INSERT or UPDATE of record rec of the SQLite version
Waiting(op, user, ty, pc, assignees, file, rec, idx, assigned) ==
    [n |-> started + 1, op |-> op, user |-> user, ty |-> ty, pc |-> pc, assignees |-> assignees,
     file |-> file, rec |-> rec, idx |-> idx, assigned |-> assigned]

\* the model starts a handler that creates records only while the ledger has
\* room for the records of all the creating handlers in flight
RoomFor(rows) ==
    Created(version, store) + Cardinality({e \in inflight : e.op \in CreatingOps}) + rows
        <= RecordBound(config)

\* app.message('done'), app.action(/complete_\d+/): up to the await of
\* saveHistory or updateAssignment
BeginCompletion(op, user, results) ==
    /\ FreeSlots
    /\ started' = started + 1
    /\ \E r \in results :
          /\ buttons' = buttons \cup r.buttons
          /\ IF r.rec = Nothing
             THEN UNCHANGED inflight
             ELSE /\ Len(r.rec[1].completedBy) <= MaxConfirmations
                  /\ inflight' = inflight \cup
                        {Waiting(op, user, "", "write", <<>>,
                                 IF version = "json" THEN r.store ELSE <<>>,
                                 r.rec, 0, {})}
    /\ UNCHANGED <<version, config, now, store, sharedTaskSelections, probe>>

BeginDone(user) ==
    \E snapshot \in loadResults(version, store) :
        BeginCompletion("done", user, doneMessage(version, snapshot, now, user, "im"))

BeginComplete(user, week, chore) ==
    /\ <<user, week, chore>> \in buttons
    /\ \E snapshot \in loadResults(version, store) :
          BeginCompletion("complete", user,
                          completeAction(version, snapshot, now, user, week, chore))

\* handleChoreAssignment of the SQLite version up to the await of
\* saveAssignment; the JSON version awaits loadHistory first
BeginAdHoc(op, userId, choreType, assignees) ==
    /\ FreeSlots
    /\ started' = started + 1
    /\ RoomFor(1)
    /\ IF version = "json"
       THEN inflight' = inflight \cup
               {Waiting(op, userId, choreType, "load", assignees, <<>>, Nothing, 0, {})}
       ELSE LET r == handleChoreAssignment(version, config, store, now, choreType,
                                           assignees, userId)
            IN  IF r.rec = Nothing
                THEN UNCHANGED inflight
                ELSE inflight' = inflight \cup
                        {Waiting(op, userId, choreType, "write", assignees, <<>>,
                                 r.rec, 0, {})}
    /\ UNCHANGED <<version, config, now, store, sharedTaskSelections, buttons, probe>>

\* app.action('solo_task'): loadHistory, findNextAssignee, then
\* handleChoreAssignment
BeginSolo(userId, choreType) ==
    \E snapshot \in loadResults(version, store) :
        \E assignee \in findNextAssignee(version, config.roommates, snapshot, now) :
            BeginAdHoc("solo", userId, choreType, <<assignee>>)

\* app.action('confirm_shared_assignment')
BeginConfirm(userId, choreType) ==
    LET selectedUserIds ==
            getSelection(sharedTaskSelections, selectionKey(userId, choreType))
    IN  IF Len(selectedUserIds) = 0
        THEN UNCHANGED vars
        ELSE BeginAdHoc("shared", userId, choreType, selectedUserIds)

\* the loadHistory of the JSON version's handleChoreAssignment returns; the
\* handler runs on to the await of saveHistory
AdHocLoaded(e) ==
    /\ e.pc = "load"
    /\ \E snapshot \in loadResults(version, store) :
          LET r == handleChoreAssignment(version, config, snapshot, now, e.ty,
                                         e.assignees, e.user)
          IN  IF r.rec = Nothing
              THEN inflight' = inflight \ {e}
              ELSE /\ Created(version, r.store) <= RecordBound(config)
                   /\ inflight' = (inflight \ {e}) \cup
                         {[e EXCEPT !.pc = "write", !.file = r.store, !.rec = r.rec]}
    /\ UNCHANGED <<version, config, now, store, sharedTaskSelections, buttons, started, probe>>

\* one pass of the for loop of the SQLite version's assignChores, from chore
\* i on, up to the next await of saveAssignment: the INSERT it issues
\* (kind = "insert", at chore idx), the end of the loop or the TypeError
assignStep(v, cfg, t, weekRecords, i, history, assignedPeopleThisWeek) ==
    LET todo == {j \in i..Len(cfg.chores) :
                    /\ cfg.chores[j].due.weekday # -1
                    /\ ~alreadyCompletedThisWeek(v, weekRecords, cfg.chores[j])}
    IN  IF todo = {} THEN {[kind |-> "end", idx |-> 0, rec |-> Nothing]}
        ELSE LET j      == CHOOSE k \in todo : \A m \in todo : k <= m
                 draws  == findNextAssignee(v, cfg.roommates, history, t)
                 finals == UNION {retryLoop(d, 0, assignedPeopleThisWeek, draws,
                                            Len(cfg.roommates)) : d \in draws}
             IN  IF Undefined \in finals
                 THEN {[kind |-> "error", idx |-> 0, rec |-> Nothing]}
                 ELSE {[kind |-> "insert", idx |-> j,
                        rec |-> Just(newAssignment(v, t, cfg.chores[j], p))] : p \in finals}

weekRecordsOf(history, t) ==
    SelectSeq(history, LAMBDA h : h.week = FormatWeek(Instant(t)))

\* assignChores up to its first await of a write: saveHistory(history) after
\* the loop in the JSON version, the first saveAssignment in the SQLite
\* version
BeginAssign(isManual) ==
    /\ FreeSlots
    /\ started' = started + 1
    /\ \E snapshot \in loadResults(version, store) :
          IF version = "json"
          THEN \E r \in assignChores(version, config, snapshot, now, isManual) :
                  IF r.outcome # "assigned"
                  THEN UNCHANGED inflight
                  ELSE /\ Created(version, r.store) <= RecordBound(config)
                       /\ RoomFor(r.rows)
                       /\ inflight' = inflight \cup
                             {Waiting("assign", NoUser, "", "write", <<>>, r.store,
                                      Nothing, 0, {})}
          ELSE IF \E r \in assignChores(version, config, snapshot, now, isManual) :
                      r.outcome \in {"existing", "allCompleted"}
          THEN UNCHANGED inflight
          ELSE \E n \in assignStep(version, config, now, weekRecordsOf(snapshot, now),
                                   1, snapshot, {}) :
                  IF n.kind # "insert"
                  THEN UNCHANGED inflight
                  ELSE /\ RoomFor(Len(config.chores) - 1)
                       /\ inflight' = inflight \cup
                             {Waiting("assign", NoUser, "", "write", <<>>, snapshot,
                                      n.rec, n.idx, Range(n.rec[1].assignedTo))}
    /\ UNCHANGED <<version, config, now, store, sharedTaskSelections, buttons, probe>>

\* the write a handler waits for is applied.  The completion handlers and the
\* JSON version's handlers end here (the confirm handler after deleting its
\* selection); the SQLite version's assignChores goes on to its next chore
WriteApplied(e) ==
    /\ e.pc = "write"
    /\ store' =
          IF version = "json" THEN e.file
          ELSE IF e.op \in CreatingOps THEN saveAssignment(version, store, e.rec[1], now)
          ELSE writeRecord(version, store, store, 0, e.rec[1])
    /\ sharedTaskSelections' =
          IF e.op = "shared"
          THEN [k \in DOMAIN sharedTaskSelections \ {selectionKey(e.user, e.ty)} |->
                    sharedTaskSelections[k]]
          ELSE sharedTaskSelections
    /\ IF version = "sqlite" /\ e.op = "assign"
       THEN \E n \in assignStep(version, config, now, weekRecordsOf(e.file, now),
                                e.idx + 1, e.file, e.assigned) :
               IF n.kind # "insert"
               THEN inflight' = inflight \ {e}
               ELSE inflight' = (inflight \ {e}) \cup
                       {[e EXCEPT !.rec = n.rec, !.idx = n.idx,
                                  !.assigned = e.assigned \cup Range(n.rec[1].assignedTo)]}
       ELSE inflight' = inflight \ {e}
    /\ UNCHANGED <<version, config, now, buttons, started, probe>>

\* the roster the interleavings are explored with
ConcRoster == 2

InitConc ==
    /\ Init
    /\ Len(config.roommates) = ConcRoster
    /\ Len(config.chores) = 1 + MaxScheduled

NextConc ==
    \/ \E isManual \in BOOLEAN : BeginAssign(isManual)
    \/ \E ty \in ChoreTypes : BeginSolo(Initiator, ty)
    \/ \E ty \in ChoreTypes, sel \in Range(config.roommates) :
           SelectUser(Initiator, ty, sel)
    \/ \E ty \in ChoreTypes : BeginConfirm(Initiator, ty)
    \/ \E u \in Range(config.roommates) : BeginDone(u)
    \/ \E b \in buttons : BeginComplete(b[1], b[2], b[3])
    \/ \E e \in inflight : AdHocLoaded(e)
    \/ \E e \in inflight : WriteApplied(e)

SpecConc == InitConc /\ [][NextConc]_vars

---------------------------------------------------------------------------
(* Properties of the allocation *)

\* some person appears in two of the assignments
HasRepeatedAssignee(assignments) ==
    \E i, j \in 1..Len(assignments) :
        i < j /\ Range(assignments[i].assignedTo) \cap Range(assignments[j].assignedTo) # {}

\* the rows a step appends to the store
newRows == SubSeq(store', Len(store) + 1, Len(store'))

\* C1: in one assignChores run the same person gets two of the chores only
\* if the roster has fewer people than the run assigns chores
C1_RepeatOnlyWhenRosterSmaller ==
    [][\A isManual \in BOOLEAN :
          \A r \in assignChores(version, config, store, now, isManual) :
              (r.outcome = "assigned" /\ store' = r.store /\ HasRepeatedAssignee(newRows))
                  => Len(config.roommates) < r.rows]_vars

\* C2: assignChores(false) called twice in the same calendar week with no
\* other operation in between returns the same records (week, chore,
\* assignees) both times, and the second call adds no row
C2_SecondRunSameRecords ==
    \A t \in now..MaxNow :
        CalendarWeek(Instant(t)) = CalendarWeek(Instant(now)) =>
            \A r1 \in assignChores(version, config, store, now, FALSE) :
                \A r2 \in assignChores(version, config, r1.store, t, FALSE) :
                    Range(r2.ret) = Range(r1.ret) /\ r2.store = r1.store

\* the roster members no other member has less accumulated credit than
MinCreditMembers(v, roommates, history, t) ==
    {p \in Range(roommates) :
        \A q \in Range(roommates) :
            monthlyCount(v, monthHistory(v, history, t), p)
                <= monthlyCount(v, monthHistory(v, history, t), q)}

\* what C3 says of the store and roster of a state
LeastCreditedChosen ==
    LET chosen == findNextAssignee(version, config.roommates, loadHistory(store), now)
    IN  /\ chosen \subseteq Range(config.roommates)
        /\ chosen = MinCreditMembers(version, config.roommates, loadHistory(store), now)

CreatedIndices == (Len(InitialStore(version)) + 1)..Len(store)

C4_CreditIsOneOverK ==
    version = "sqlite" =>
        \A i \in 1..Len(store) :
            creditPerPerson(version, store[i]) * Len(store[i].assignedTo) = 6

---------------------------------------------------------------------------
(* Properties of the completion tracker, handlers run one at a time *)

\* C5: every id in a record's completedBy is in its assignedTo
C5_CompletedBySubsetAssignedTo ==
    \A i \in 1..Len(store) :
        Range(store[i].completedBy) \subseteq Range(store[i].assignedTo)

\* a shared record one of its assignees has confirmed
C5_Witness ==
    \E i \in CreatedIndices :
        /\ Len(store[i].assignedTo) >= 2
        /\ store[i].completedBy # <<>>
        /\ ~store[i].completed

\* C6: a record is completed exactly when every id of assignedTo is in
\* completedBy
C6_CompletedIffAllConfirmed ==
    \A i \in 1..Len(store) :
        store[i].completed <=>
            Range(store[i].assignedTo) \subseteq Range(store[i].completedBy)

\* a shared record all of its assignees have confirmed
C6_Witness ==
    \E i \in CreatedIndices :
        Len(store[i].assignedTo) >= 2 /\ store[i].completed

\* C7: the number of distinct ids in a record's completedBy never decreases
C7_ConfirmationsNeverDecrease ==
    [][\A i \in 1..Len(store) :
          /\ i <= Len(store')
          /\ Cardinality(Range(store'[i].completedBy))
                >= Cardinality(Range(store[i].completedBy))]_vars

\* a record two confirmations have been pushed to
C7_Witness ==
    \E i \in CreatedIndices : Len(store[i].completedBy) >= 2

\* C8: once a record is completed no later operation changes its completed,
\* completedBy, completedDate or assignedTo
C8_DoneIsTerminal ==
    [][\A i \in 1..Len(store) :
          store[i].completed =>
              /\ i <= Len(store')
              /\ store'[i].completed
              /\ store'[i].completedBy = store[i].completedBy
              /\ store'[i].completedDate = store[i].completedDate
              /\ store'[i].assignedTo = store[i].assignedTo]_vars

\* a record was completed, and after that a later confirmation completed
\* another record
C8_Witness ==
    \E i, j \in CreatedIndices :
        /\ store[i].completed /\ store[j].completed
        /\ store[i].completedDate[1] < store[j].completedDate[1]

---------------------------------------------------------------------------
(* Properties of interleaved handlers *)

\* the same record, by the fields it was created with
SameRecord(g, h) ==
    /\ g.week = h.week /\ g.chore = h.chore /\ g.assignedTo = h.assignedTo
    /\ g.date = h.date /\ g.triggeredBy = h.triggeredBy /\ g.dueDate = h.dueDate

\* C9: when the 'done' handlers of the two assignees of a two-person record
\* interleave, the record has both ids in completedBy and completed = true
\* once both have finished: the write of an assignee's handler that is
\* applied after the other assignee's confirmation leaves both
C9_BothConfirmationsKept ==
    [][\A e \in inflight :
          (e.op = "done" /\ e.pc = "write" /\ inflight' = inflight \ {e}) =>
              \A i \in 1..Len(store) :
                  ( /\ SameRecord(store[i], e.rec[1])
                    /\ Len(store[i].assignedTo) = 2
                    /\ store[i].assignedTo[1] # store[i].assignedTo[2]
                    /\ e.user \in Range(store[i].assignedTo)
                    /\ Range(store[i].assignedTo) \ {e.user}
                          \subseteq Range(store[i].completedBy) )
                  => /\ i <= Len(store')
                     /\ store'[i].completed
                     /\ Range(store'[i].assignedTo) \subseteq Range(store'[i].completedBy)]_vars

\* C10: in the JSON version a record once written to the history is in the
\* stored history in every later state, for every interleaving of the
\* handlers and also when a loadHistory read fails
C10_RecordsStayStored ==
    [][version = "json" =>
          \A i \in 1..Len(store) :
              \E j \in 1..Len(store') : SameRecord(store[i], store'[j])]_vars

---------------------------------------------------------------------------
(* Properties of the scheduled allocation, handlers run one at a time *)

\* a record of the scheduled allocation: it has no triggeredBy
IsScheduled(h) == h.triggeredBy = NoUser

AllScheduledCompleted ==
    \A c \in 1..Len(config.chores) :
        config.chores[c].due.weekday # -1 =>
            \E i \in 1..Len(store) :
                /\ store[i].week = FormatWeek(Instant(now))
                /\ store[i].chore = config.chores[c].title
                /\ store[i].completed

\* C12: in the SQLite version, when every scheduled chore has a completed
\* record for the current week, assignChores returns the empty list and adds
\* no row, whatever else the week holds and with or without the force flag
C12_AllCompletedReturnsEmpty ==
    (version = "sqlite" /\ AllScheduledCompleted) =>
        \A isManual \in BOOLEAN :
            \A r \in assignChores(version, config, store, now, isManual) :
                r.ret = <<>> /\ r.store = store

\* C13: in the JSON version assignChores never creates a record for a chore
\* that already has a completed record in the current week, with or without
\* the force flag
C13_NoRecordForCompletedChore ==
    version = "json" =>
        \A isManual \in BOOLEAN :
            \A r \in assignChores(version, config, store, now, isManual) :
                \A n \in (Len(store) + 1)..Len(r.store) :
                    ~\E i \in 1..Len(store) :
                        /\ store[i].week = r.store[n].week
                        /\ store[i].chore = r.store[n].chore
                        /\ store[i].completed

\* the current week holds a non-completed record
PendingThisWeek ==
    \E i \in 1..Len(store) :
        store[i].week = FormatWeek(Instant(now)) /\ ~store[i].completed

\* chore c of the configuration has a completed record in the current week
CompletedThisWeek(c) ==
    \E i \in 1..Len(store) :
        /\ store[i].week = FormatWeek(Instant(now))
        /\ store[i].chore = config.chores[c].title
        /\ store[i].completed

\* what C14 says of the forced run with result r
ForcedRunAppendsOnePerOpenChore(r) ==
    /\ Len(r.store) >= Len(store)
    /\ SubSeq(r.store, 1, Len(store)) = store
    /\ \A c \in 1..Len(config.chores) :
          Cardinality({n \in (Len(store) + 1)..Len(r.store) :
                          r.store[n].chore = config.chores[c].title})
            = IF config.chores[c].due.weekday # -1 /\ ~CompletedThisWeek(c) THEN 1 ELSE 0

\* C14: assignChores(true) called while the current week has pending records
\* appends exactly one record for each scheduled chore without a completed
\* record this week and leaves every record it found unchanged
C14_ForcedRunFrame ==
    PendingThisWeek =>
        \A r \in assignChores(version, config, store, now, TRUE) :
            ForcedRunAppendsOnePerOpenChore(r)

---------------------------------------------------------------------------
(* The due-date calculator on its own *)

\* the recurrences and reference instants the calculator is asked with
DueWeekdays == 0..6
DueHours == {0, 10, 12, 23}
DueMinutes == {0, 30, 59}
RefHours == {0, 10, 11, 12, 23}
RefMinutes == {0, 30, 59}
RefSeconds == {0, 30}

InitDue ==
    /\ version = "sqlite"
    /\ config = [roommates |-> Roster(0), chores |-> ChoreList(1)]
    /\ now = 0
    /\ store = InitialStore(version)
    /\ sharedTaskSelections = <<>>
    /\ buttons = {}
    /\ inflight = {}
    /\ started = 0
    /\ probe \in [due : [weekday : DueWeekdays, hour : DueHours, minute : DueMinutes],
                  nowM : {d * MinutesPerDay + h * 60 + m :
                             d \in 0..6, h \in RefHours, m \in RefMinutes},
                  nowS : RefSeconds,
                  result : {Nothing}]

\* getNextDueDate(due) is called at the reference instant
DueDateAsked ==
    /\ probe.result = Nothing
    /\ probe' = [probe EXCEPT !.result = nextDueFrom(probe.due, 0, probe.nowM, probe.nowS)]
    /\ UNCHANGED <<version, config, now, store, sharedTaskSelections, buttons, inflight,
                   started>>

NextDue == DueDateAsked

SpecDue == InitDue /\ [][NextDue]_vars

\* C15: for weekOffset = 0 getNextDueDate returns the earliest instant not
\* before the reference instant that falls on the configured weekday at the
\* configured hour:minute
C15_EarliestDueNotBeforeNow ==
    probe.result # Nothing =>
        LET d   == probe.result[1]
            ref == probe.nowM * 60 + probe.nowS
        IN  /\ d * 60 >= ref
            /\ (d - 7 * MinutesPerDay) * 60 < ref
            /\ DayOfWeek(d) = probe.due.weekday
            /\ d % MinutesPerDay = probe.due.hour * 60 + probe.due.minute

\* the call the claim names: due Monday 10:00, asked Monday 11:00, answered
\* with the following Monday 10:00
C15_Witness ==
    /\ probe.due = [weekday |-> 1, hour |-> 10, minute |-> 0]
    /\ probe.nowM = MinutesPerDay + 11 * 60
    /\ probe.result = Just(8 * MinutesPerDay + 10 * 60)

---------------------------------------------------------------------------
(* The completion handlers one by one.  A record of the current week is a
   record whose week field is the current week identifier. *)

\* the non-completed records of the current week that user is an assignee of
PendingOf(user) ==
    {i \in 1..Len(store) :
        /\ store[i].week = FormatWeek(Instant(now))
        /\ ~store[i].completed
        /\ user \in Range(store[i].assignedTo)}

\* record g is record h after the confirmation of user at the current
\* instant: user is added to completedBy, completed and completedDate are set
\* exactly when every assignee is then in completedBy, nothing else changes
ConfirmedBy(g, h, user) ==
    /\ Range(g.completedBy) = Range(h.completedBy) \cup {user}
    /\ g.completed <=> Range(h.assignedTo) \subseteq Range(g.completedBy)
    /\ g.completedDate = IF g.completed THEN Just(Instant(now)) ELSE h.completedDate
    /\ [g EXCEPT !.completedBy = h.completedBy, !.completed = h.completed,
                 !.completedDate = h.completedDate] = h

\* store s is the current store with record i confirmed by user and no other
\* record changed
OnlyRecordConfirmed(s, i, user) ==
    /\ Len(s) = Len(store)
    /\ ConfirmedBy(s[i], store[i], user)
    /\ \A j \in 1..Len(store) : j # i => s[j] = store[j]

ButtonValues ==
    {<<store[i].week, store[i].chore>> : i \in 1..Len(store)}
        \cup {<<FormatWeek(Instant(now)), ManualChore.title>>}

\* C18: a completion-button click carrying (week, chore) updates exactly one
\* record, a non-completed record of that week and chore whose assignees
\* include the clicking user, by the logic of the single-match 'done' path;
\* without such a record the store is unchanged
C18_ButtonUpdatesOneMatch ==
    \A u \in People :
        \A b \in ButtonValues :
            LET matches == {i \in 1..Len(store) :
                               /\ store[i].week = b[1] /\ store[i].chore = b[2]
                               /\ ~store[i].completed
                               /\ u \in Range(store[i].assignedTo)}
            IN  \A r \in completeAction(version, store, now, u, b[1], b[2]) :
                    IF matches = {} THEN r.store = store
                    ELSE \E i \in matches : OnlyRecordConfirmed(r.store, i, u)

\* a button of a posted prompt whose record the user has confirmed while
\* another of the user's records is still pending
C18_Witness ==
    \E b \in buttons :
        /\ \E i \in CreatedIndices :
              /\ store[i].week = b[2] /\ store[i].chore = b[3]
              /\ b[1] \in Range(store[i].completedBy)
        /\ PendingOf(b[1]) # {}

---------------------------------------------------------------------------
(* The reminder sweep: cron '0 * * * *'.  Instants are minutes; the part of
   an instant below the minute is kept by getNextDueDate (second(0) leaves
   the milliseconds of the creation instant) and is positive for the sweep
   (dayjs() is read after the store has been loaded), so at the two ends of
   the window the comparison can go either way: sub says whether the sweep's
   part is "before" or "after" that of the due dates. *)

SubMinute == {"before", "after"}

\* a variant that looks 90 minutes ahead
isUpcomingNinetyMinutes(h, nowM, sub) ==
    /\ ~h.completed
    /\ h.dueDate # Nothing
    /\ LET dueTime == h.dueDate[1]
       IN  /\ dueTime > nowM \/ (dueTime = nowM /\ sub = "before")
           /\ dueTime < nowM + 90 \/ (dueTime = nowM + 90 /\ sub = "after")

\* dueTime.isAfter(now) && dueTime.isBefore(in30Minutes) for a record that is
\* not completed and has a due date
isUpcoming(h, nowM, sub) ==
    /\ ~h.completed
    /\ h.dueDate # Nothing
    /\ LET dueTime == h.dueDate[1]
       IN  /\ dueTime > nowM \/ (dueTime = nowM /\ sub = "before")
           /\ dueTime < nowM + 30 \/ (dueTime = nowM + 30 /\ sub = "after")

upcomingChores(history, nowM, sub) ==
    {i \in 1..Len(history) : isUpcoming(history[i], nowM, sub)}

\* a variant that sends the reminder of a record to the whole roster
assigneeIdsEveryone(h) == People

\* the people the inner loop opens a DM with
assigneeIds(h) == Range(h.assignedTo)

\* the DMs one sweep attempts: <<record, person>>
reminderSweep(s, nowM, sub) ==
    LET history == loadHistory(s)
    IN  {ip \in upcomingChores(history, nowM, sub) \X People :
            ip[2] \in assigneeIds(history[ip[1]])}

\* the scheduled chores of the household the sweep is studied with: due on
\* Thursday inside the window of the 12:00 sweep and at its end
ReminderChores ==
    << [title |-> "Water the plants",
        lower |-> {"water", "the", "plants"},
        due   |-> [weekday |-> 4, hour |-> 12, minute |-> 15]],
       [title |-> "Wipe the counters",
        lower |-> {"wipe", "the", "counters"},
        due   |-> [weekday |-> 4, hour |-> 12, minute |-> 30]] >>

InitRemind ==
    /\ version \in Versions
    /\ config \in {[roommates |-> Roster(2), chores |-> <<ManualChore, ReminderChores[k]>>] :
                      k \in 1..Len(ReminderChores)}
    /\ now = 0
    /\ store = InitialStore(version)
    /\ sharedTaskSelections = <<>>
    /\ buttons = {}
    /\ inflight = {}
    /\ started = 0
    /\ probe = Nothing

\* the cron callback at the hour mark Instant(now); probe holds the DMs of
\* the sweep that is running
ReminderSweep ==
    /\ probe = Nothing
    /\ Instant(now) % 60 = 0
    /\ \E sub \in SubMinute :
          probe' = Just([at |-> Instant(now), sub |-> sub,
                         sent |-> reminderSweep(store, Instant(now), sub)])
    /\ UNCHANGED <<version, config, now, store, sharedTaskSelections, buttons, inflight,
                   started>>

\* the callback returns
SweepEnds ==
    /\ probe # Nothing
    /\ probe' = Nothing
    /\ UNCHANGED <<version, config, now, store, sharedTaskSelections, buttons, inflight,
                   started>>

\* the handlers of the sequential machine run between two sweeps
BetweenSweeps ==
    /\ probe = Nothing
    /\ \/ Tick
       \/ \E isManual \in BOOLEAN : AssignChores(isManual)
       \/ \E ty \in ChoreTypes : SoloTask(Initiator, ty)
       \/ \E ty \in ChoreTypes, sel \in Range(config.roommates) :
              SelectUser(Initiator, ty, sel)
       \/ \E ty \in ChoreTypes : ConfirmShared(Initiator, ty)
       \/ \E u \in People, ct \in ChannelTypes : DoneDM(u, ct)
       \/ \E b \in buttons : CompleteButton(b[1], b[2], b[3])

NextRemind ==
    \/ BetweenSweeps
    \/ ReminderSweep
    \/ SweepEnds

SpecRemind == InitRemind /\ [][NextRemind]_vars

\* the people record i is reminded of by the sweep kept in p
RemindedOf(p, i) == {u \in People : <<i, u>> \in p.sent}

\* C20: in a reminder sweep, for each non-completed record whose due date
\* lies within the next 30 minutes, the people sent a reminder are exactly
\* the assignees who have not confirmed (assignedTo minus completedBy); no
\* record is reminded to anyone else
C20_RemindedAreRemainingAssignees ==
    [][probe' # Nothing =>
        \A i \in 1..Len(store) :
            LET h == store[i]
                remaining == Range(h.assignedTo) \ Range(h.completedBy)
                due == ~h.completed /\ h.dueDate # Nothing
                         /\ h.dueDate[1] > probe'[1].at
                         /\ h.dueDate[1] < probe'[1].at + 30
            IN  /\ due => RemindedOf(probe'[1], i) = remaining
                /\ RemindedOf(probe'[1], i) \in {{}, remaining}]_vars

\* a sweep has sent a reminder while a shared record with one confirmation
\* is in the store
C20_Witness ==
    /\ probe # Nothing
    /\ probe[1].sent # {}
    /\ \E i \in CreatedIndices :
          /\ ~store[i].completed
          /\ store[i].completedBy # <<>>

---------------------------------------------------------------------------
(* The reminder cron hour by hour.  probe holds the hour mark of the latest
   sweep and every DM attempted so far, with the hour mark of its sweep. *)

\* the minute of the hour the scheduled chore is due at
ConfiguredDueMinutes == 0..59

\* a scheduled chore due on Thursday at 12:mm
HourlyChore(mm) ==
    [title |-> "Water the plants",
     lower |-> {"water", "the", "plants"},
     due   |-> [weekday |-> 4, hour |-> 12, minute |-> mm]]

\* the last hour mark followed: one hour after the last instant of the clock
CronLast == Instant(MaxNow) + 60

InitCron ==
    /\ version \in Versions
    /\ config \in {[roommates |-> Roster(2), chores |-> <<ManualChore, HourlyChore(mm)>>] :
                      mm \in ConfiguredDueMinutes}
    /\ now = 0
    /\ store = InitialStore(version)
    /\ sharedTaskSelections = <<>>
    /\ buttons = {}
    /\ inflight = {}
    /\ started = 0
    /\ probe = Just([clock |-> Instant(0), sent |-> {}])

\* the next hour mark arrives and the cron callback runs; the handlers' clock
\* follows
CronHour ==
    /\ probe[1].clock < CronLast
    /\ LET at == probe[1].clock + 60
       IN  /\ \E sub \in SubMinute :
                 probe' = Just([clock |-> at,
                                sent  |-> probe[1].sent \cup
                                          {<<ip[1], ip[2], at>> : ip \in reminderSweep(store, at, sub)}])
           /\ now' = IF now < MaxNow /\ at >= Instant(now + 1) THEN now + 1 ELSE now
    /\ UNCHANGED <<version, config, store, sharedTaskSelections, buttons, inflight, started>>

\* the weekly assignment, once, at the first instant
WeeklyAssignment ==
    /\ probe[1].clock = Instant(0)
    /\ Created(version, store) = 0
    /\ AssignChores(FALSE)

NextCron ==
    \/ CronHour
    \/ WeeklyAssignment
    \/ \E u \in People : DoneDM(u, "im")

SpecCron == InitCron /\ [][NextCron]_vars

\* record h was created at least one hour before its due time, the due time
\* has arrived at the hour mark clock, and the record is not completed
DueAndOpen(h, clock) ==
    /\ h.dueDate # Nothing
    /\ h.date + 60 <= h.dueDate[1]
    /\ h.dueDate[1] <= clock
    /\ ~h.completed

\* C21: every record with a due date that was created at least one hour
\* before it and is not completed when the due time arrives has had a
\* reminder DM attempted to each of its assignees by a sweep in the 30
\* minutes before the due time, whatever the configured due minute
C21_ReminderBeforeEveryDueTime ==
    \A i \in CreatedIndices :
        DueAndOpen(store[i], probe[1].clock) =>
            \A p \in Range(store[i].assignedTo) :
                \E m \in probe[1].sent :
                    /\ m[1] = i /\ m[2] = p
                    /\ store[i].dueDate[1] - 30 <= m[3]
                    /\ m[3] <= store[i].dueDate[1]

---------------------------------------------------------------------------
(* The allocator's counts, chore by chore *)

\* how many records of the month in the store assign chore title to person p
choreCount(title, p) ==
    LET mh == monthHistory(version, loadHistory(store), now)
    IN  Cardinality({i \in 1..Len(mh) : mh[i].chore = title /\ p \in Range(mh[i].assignedTo)})

\* C22: the person assignChores picks for a chore is one of the roster
\* members who have been assigned that chore the fewest times within the
\* window the allocator counts over
C22_FewestOfThatChore ==
    \A isManual \in BOOLEAN :
        \A r \in assignChores(version, config, store, now, isManual) :
            r.outcome = "assigned" =>
                \A k \in 1..Len(r.ret) :
                    \A p \in Range(r.ret[k].assignedTo) :
                        \A q \in Range(config.roommates) :
                            choreCount(r.ret[k].chore, p) <= choreCount(r.ret[k].chore, q)

\* README Notes: the fairness window is the last 8 weeks
FairnessWindowWeeks == 8

\* record h was created within the trailing FairnessWindowWeeks weeks of the
\* instant t
InFairnessWindow(h, t) ==
    /\ h.date <= Instant(t)
    /\ Instant(t) - h.date < FairnessWindowWeeks * 7 * MinutesPerDay

\* C23: the records findNextAssignee counts are exactly the records of the
\* trailing 8 weeks: a record of the last weeks stamped with the previous
\* calendar month is counted, a record older than 8 weeks is not
C23_CountsTrailingEightWeeks ==
    LET history == loadHistory(store)
    IN  monthHistory(version, history, now)
            = SelectSeq(history, LAMBDA h : InFairnessWindow(h, now))

---------------------------------------------------------------------------
(* Scheduled allocation cycles only: one scheduled chore, every cycle's
   record is completed before the next weekly run, no ad-hoc trigger and no
   /chore assign *)

MaxCycles == 3

InitCycles ==
    /\ version \in Versions
    /\ config \in {[roommates |-> Roster(n), chores |-> ChoreList(1)] : n \in 1..MaxRoster}
    /\ now = 0
    /\ store = InitialStore(version)
    /\ sharedTaskSelections = <<>>
    /\ buttons = {}
    /\ inflight = {}
    /\ started = 0
    /\ probe = Nothing

\* the weekly cron, once the records of the earlier cycles are completed
ScheduledCycle ==
    /\ \A i \in CreatedIndices : store[i].completed
    /\ \E r \in assignChores(version, config, store, now, FALSE) :
          /\ Created(version, r.store) <= MaxCycles
          /\ store' = r.store
    /\ UNCHANGED <<version, config, now, sharedTaskSelections, buttons, inflight, started, probe>>

\* a week passes: the clock goes from one Monday 12:00 to the next
WeekPasses ==
    /\ now + 2 <= 2 * (MaxCycles - 1)
    /\ now' = now + 2
    /\ UNCHANGED <<version, config, store, sharedTaskSelections, buttons, inflight, started, probe>>

NextCycles ==
    \/ WeekPasses
    \/ ScheduledCycle
    \/ \E u \in People : DoneDM(u, "im")

SpecCycles == InitCycles /\ [][NextCycles]_vars

\* the credit person p has accumulated in the fairness window: one per record
\* of the trailing weeks that assigns p alone
AccumulatedCredit(p) ==
    Cardinality({i \in 1..Len(store) :
                    InFairnessWindow(store[i], now) /\ p \in Range(store[i].assignedTo)})

\* C24: with a fixed roster, one scheduled chore, an empty window at the
\* start and only scheduled cycles, each completed before the next, the
\* accumulated credit of any two roster members differs by at most 1
C24_CreditSpreadAtMostOne ==
    \A p, q \in Range(config.roommates) :
        AccumulatedCredit(p) - AccumulatedCredit(q) <= 1

---------------------------------------------------------------------------
(* The retry loop of assignChores *)

\* the people the first k - 1 assignments of a run went to
AssignedBefore(ret, k) ==
    UNION {Range(ret[j].assignedTo) : j \in 1..(k - 1)}

\* the history findNextAssignee is given for the k-th assignment of a run:
\* the loaded history, which the JSON version extends by the run's earlier
\* assignments (history.push)
HistoryAt(ret, k) ==
    IF version = "json"
    THEN loadHistory(store) \o
         [j \in 1..(k - 1) |-> [month |-> FormatMonth(version, Instant(now)),
                                assignedTo |-> ret[j].assignedTo, isShared |-> FALSE]]
    ELSE loadHistory(store)

\* C25: in an assignChores run, whenever the minimum-credit tie set for a
\* chore contains a person who has not yet received a chore in this run, the
\* chore is assigned to a person who has not yet received a chore in this run
C25_UnassignedCandidatePreferred ==
    \A isManual \in BOOLEAN :
        \A r \in assignChores(version, config, store, now, isManual) :
            r.outcome = "assigned" =>
                \A k \in 1..Len(r.ret) :
                    LET tieSet == Range(candidates(version, config.roommates,
                                                   HistoryAt(r.ret, k), now))
                    IN  tieSet \ AssignedBefore(r.ret, k) # {} =>
                            Range(r.ret[k].assignedTo) \cap AssignedBefore(r.ret, k) = {}

---------------------------------------------------------------------------
(* Error paths *)

\* no chore title of the configuration contains the word of the trigger type
NoTitleMatches(choreType) ==
    \A i \in 1..Len(config.chores) :
        ~TitleIncludes(config.chores[i], searchWord(choreType))

\* the handler replied with the no-chore error and left the store alone
RepliedNoChore(r) == r.outcome = "noChore" /\ r.store = store /\ r.rows = 0

\* C26: an ad-hoc trigger, solo or shared, of a type that matches no chore
\* title of the configuration creates no record: the store is unchanged and
\* the requester gets the error reply
C26_UnmatchedTypeCreatesNothing ==
    \A ty \in ChoreTypes :
        NoTitleMatches(ty) =>
            /\ \A a \in findNextAssignee(version, config.roommates, loadHistory(store), now) :
                  RepliedNoChore(handleChoreAssignment(version, config, store, now, ty,
                                                       <<a>>, Initiator))
            /\ \A key \in DOMAIN sharedTaskSelections :
                  (key[2] = ty /\ Len(sharedTaskSelections[key]) > 0) =>
                      RepliedNoChore(handleChoreAssignment(version, config, store, now, ty,
                                                           sharedTaskSelections[key], key[1]))

\* a shared dialog of a type without a chore has people selected, with
\* records in the store
C26_Witness ==
    /\ CreatedIndices # {}
    /\ \E key \in DOMAIN sharedTaskSelections :
          NoTitleMatches(key[2]) /\ Len(sharedTaskSelections[key]) > 0

\* a variant of the DM loop that ends at the first failure
RECURSIVE dmLoopAborting(_, _)
dmLoopAborting(ids, failing) ==
    IF ids = <<>> THEN <<>>
    ELSE IF Head(ids) \in failing THEN <<[to |-> Head(ids), ok |-> FALSE]>>
    ELSE <<[to |-> Head(ids), ok |-> TRUE]>> \o dmLoopAborting(Tail(ids), failing)

\* for (const assigneeId of assigneeIds) { try { open DM, postMessage }
\* catch { console.error } }: the DMs attempted, in order, when the calls for
\* the people in failing throw
RECURSIVE dmLoop(_, _)
dmLoop(ids, failing) ==
    IF ids = <<>> THEN <<>>
    ELSE <<[to |-> Head(ids), ok |-> Head(ids) \notin failing]>> \o dmLoop(Tail(ids), failing)

\* the people a DM loop tried to reach
Attempted(ids, failing) == {a.to : a \in Range(dmLoop(ids, failing))}

\* whoever fails, the DM loop reaches for every one of ids
AllAttempted(ids) ==
    \A failing \in SUBSET Range(config.roommates) : Attempted(ids, failing) = Range(ids)

\* the DM loop after saveAssignment in handleChoreAssignment reaches for every
\* assignee of the record r saved, and the record is in the store
AdHocNotifiesAll(result) ==
    LET r == result
    IN  r.outcome = "assigned" =>
            /\ AllAttempted(r.rec[1].assignedTo)
            /\ Len(r.store) = Len(store) + 1
            /\ recKey(r.store[Len(r.store)]) = recKey(r.rec[1])
            /\ SubSeq(r.store, 1, Len(store)) = store

\* C27: when the DM to one assignee fails in an ad-hoc assignment or in a
\* reminder sweep, a DM is still attempted for every other assignee and, in
\* the sweep, for every other record; the saved record stays in the store
C27_FailedDMDoesNotStopTheRest ==
    /\ \A ty \in ChoreTypes :
          /\ \A a \in findNextAssignee(version, config.roommates, loadHistory(store), now) :
                AdHocNotifiesAll(handleChoreAssignment(version, config, store, now, ty,
                                                       <<a>>, Initiator))
          /\ \A key \in DOMAIN sharedTaskSelections :
                (key[2] = ty /\ Len(sharedTaskSelections[key]) > 0) =>
                    AdHocNotifiesAll(handleChoreAssignment(version, config, store, now, ty,
                                                           sharedTaskSelections[key], key[1]))
    /\ \A sub \in SubMinute :
          \A i \in upcomingChores(loadHistory(store), Instant(now), sub) :
              AllAttempted(loadHistory(store)[i].assignedTo)

\* a sweep is sending reminders while a record with two assignees is in the
\* store
C27_Witness ==
    /\ probe # Nothing
    /\ probe[1].sent # {}
    /\ \E i \in CreatedIndices : Len(store[i].assignedTo) >= 2

\* some scheduled chore of the configuration has no completed record in the
\* current week
SomeChoreNeedsAssignment ==
    \E k \in 1..Len(config.chores) :
        /\ config.chores[k].due.weekday # -1
        /\ ~\E i \in 1..Len(store) :
               /\ store[i].week = FormatWeek(Instant(now))
               /\ store[i].chore = config.chores[k].title
               /\ store[i].completed

\* C28: with an empty roster and a scheduled chore that needs assignment, a
\* scheduled or manual allocation ends in the error its caller catches and
\* logs: no record is added and the store is left for the later triggers as
\* it was
C28_EmptyRosterAllocationFails ==
    (config.roommates = <<>> /\ SomeChoreNeedsAssignment) =>
        \A isManual \in BOOLEAN :
            \A r \in assignChores(version, config, store, now, isManual) :
                r.outcome = "error" /\ r.rows = 0 /\ r.store = store

\* a household without roommates, later in the week, the ledger as it
\* started
C28_Witness ==
    /\ config.roommates = <<>>
    /\ SomeChoreNeedsAssignment
    /\ now = MaxNow
    /\ store = InitialStore(version)

---------------------------------------------------------------------------
(* Manually triggered chores *)

\* the titles of the chores configured with due.weekday = -1
ManualTitles ==
    {config.chores[k].title : k \in {j \in 1..Len(config.chores) :
                                        config.chores[j].due.weekday = -1}}

\* C29: assignChores never creates a record for a chore configured as
\* manual-trigger-only; the records the handlers create for such chores come
\* from the ad-hoc trigger path, and every record of such a chore has a null
\* due date
C29_ManualChoresOnlyAdHoc ==
    /\ \A isManual \in BOOLEAN :
          \A r \in assignChores(version, config, store, now, isManual) :
              \A i \in (Len(store) + 1)..Len(r.store) :
                  r.store[i].chore \notin ManualTitles
    /\ \A i \in CreatedIndices :
          store[i].chore \in ManualTitles => store[i].triggeredBy # NoUser
    /\ \A i \in 1..Len(store) :
          store[i].chore \in ManualTitles => store[i].dueDate = Nothing

\* the store holds a record of a manually triggered chore next to a record
\* assignChores created
C29_Witness ==
    \E i, j \in CreatedIndices :
        /\ store[i].chore \in ManualTitles
        /\ store[j].triggeredBy = NoUser
        /\ store[j].dueDate # Nothing

\* C30: every record ever stored, whether assignChores created it or the
\* solo or shared ad-hoc path after any toggles and confirmations, has an
\* assignedTo list that is not empty
C30_AssignedToNeverEmpty ==
    \A i \in 1..Len(store) : store[i].assignedTo # <<>>

\* a record confirmed from a dialog with two people selected, next to a
\* record with one assignee
C30_Witness ==
    \E i, j \in CreatedIndices :
        /\ Len(store[i].assignedTo) = 2
        /\ store[i].triggeredBy = Initiator
        /\ Len(store[j].assignedTo) = 1

---------------------------------------------------------------------------
(* The shared-task dialog *)

\* the dialog asks to 'Select 2-3 people'
SharedSizes == {2, 3}

\* C31: a shared-task assignment confirmed through the selection dialog
\* always creates a record with 2 or 3 assignees; confirming with one person
\* selected creates no record
C31_SharedRecordHasTwoOrThree ==
    [][\A ty \in ChoreTypes :
          ConfirmShared(Initiator, ty) =>
              \A i \in (Len(store) + 1)..Len(store') :
                  Len(store'[i].assignedTo) \in SharedSizes]_vars

---------------------------------------------------------------------------
(* Non-forced allocation runs that interleave: initializeThisWeek at startup
   and the weekly cron both call assignChores(false) *)

InitRuns ==
    /\ Init
    /\ Len(config.roommates) \in 1..ConcRoster
    /\ Len(config.chores) = 2

NextRuns ==
    \/ Tick
    \/ BeginAssign(FALSE)
    \/ \E e \in inflight : WriteApplied(e)

SpecRuns == InitRuns /\ [][NextRuns]_vars

\* C32: non-forced assignChores invocations for the same week whose
\* executions interleave at their awaits together create at most one record
\* per scheduled chore for that week
C32_OneRecordPerChoreAndWeek ==
    \A i, j \in CreatedIndices :
        (store[i].week = store[j].week /\ store[i].chore = store[j].chore) => i = j

---------------------------------------------------------------------------
(* Completion handlers that interleave *)

\* C33: in the SQLite version, under every interleaving of the 'done' and
\* completion-button handlers, the completedBy ids of a record never shrink,
\* and a record with completed = true has completedBy equal to assignedTo
C33_ConfirmationsKeptUnderInterleaving ==
    [][version = "sqlite" =>
          \A i \in 1..Len(store) :
              /\ i <= Len(store')
              /\ Range(store[i].completedBy) \subseteq Range(store'[i].completedBy)
              /\ store'[i].completed =>
                     Range(store'[i].completedBy) = Range(store'[i].assignedTo)]_vars

---------------------------------------------------------------------------
(* The de-duplication loop of assignChores, one iteration at a time.  probe
   holds the loop's variables: the person drawn, attempts, the people who
   already have a chore in this run, and whether the loop has been left. *)

InitRetry ==
    /\ version \in Versions
    /\ config \in Configs
    /\ now = 0
    /\ store = InitialStore(version)
    /\ sharedTaskSelections = <<>>
    /\ buttons = {}
    /\ inflight = {}
    /\ started = 0
    /\ probe \in {Just([assignee |-> a, attempts |-> 0, assigned |-> done, left |-> FALSE]) :
                     a \in findNextAssignee(version, config.roommates,
                                            loadHistory(store), now),
                     done \in SUBSET Range(config.roommates)}

\* one evaluation of the while condition: another findNextAssignee call and
\* attempts++, or the loop is left (also by the TypeError of reading slackId
\* of undefined)
RetryStep ==
    /\ ~probe[1].left
    /\ IF probe[1].assignee # Undefined
          /\ retryAgain(probe[1].assignee, probe[1].attempts, probe[1].assigned,
                        Len(config.roommates))
       THEN \E a \in findNextAssignee(version, config.roommates, loadHistory(store), now) :
               probe' = Just([probe[1] EXCEPT !.assignee = a,
                                              !.attempts = probe[1].attempts + 1])
       ELSE probe' = Just([probe[1] EXCEPT !.left = TRUE])
    /\ UNCHANGED <<version, config, now, store, sharedTaskSelections, buttons, inflight,
                   started>>

NextRetry == RetryStep

\* the loop has no await: an iteration that can run does run
SpecRetry == InitRetry /\ [][NextRetry]_vars /\ WF_vars(RetryStep)

\* C34: for each chore the de-duplication loop calls findNextAssignee at most
\* roster-size additional times, and the loop is always left, also when
\* every roster member already has a chore in this run
C34_RetryLoopBounded ==
    /\ [](probe[1].attempts <= Len(config.roommates))
    /\ <>(probe[1].left)

\* the loop has been left after as many redraws as there are roommates, all
\* of whom already have a chore in this run
C34_Witness ==
    /\ probe[1].left
    /\ Len(config.roommates) >= 2
    /\ probe[1].attempts = Len(config.roommates)
    /\ probe[1].assigned = Range(config.roommates)

---------------------------------------------------------------------------
\* C35: whenever a non-forced assignChores call returns normally, every
\* scheduled chore has at least one record, pending or completed, for the
\* current week; a pending ad-hoc record of the week does not prevent it
C35_ScheduledChoresAssignedAfterRun ==
    \A r \in assignChores(version, config, store, now, FALSE) :
        r.outcome # "error" =>
            \A c \in 1..Len(config.chores) :
                config.chores[c].due.weekday # -1 =>
                    \E i \in 1..Len(r.store) :
                        /\ r.store[i].week = FormatWeek(Instant(now))
                        /\ r.store[i].chore = config.chores[c].title

---------------------------------------------------------------------------
\* C36: records created by allocation runs in two different calendar weeks
\* of the same year carry different week identifiers
C36_WeekIdentifiersDistinguishWeeks ==
    \A i, j \in CreatedIndices :
        ( /\ YearOf(store[i].date) = YearOf(store[j].date)
          /\ CalendarWeek(store[i].date) # CalendarWeek(store[j].date) )
        => store[i].week # store[j].week

---------------------------------------------------------------------------
\* the assignment batches (returned records) assignChores of version v can
\* produce on the present ledger
Batches(v, isManual) ==
    {r.ret : r \in assignChores(v, config, store, now, isManual)}

\* C37: on the same roster, chore list and ledger of single-assignee records,
\* the SQLite assignChores and the JSON weekly assignChores have the same set
\* of possible assignment batches, for both values of the force flag
C37_SameBatchesInBothVersions ==
    (\A i \in 1..Len(store) : Len(store[i].assignedTo) = 1) =>
        \A isManual \in BOOLEAN :
            Batches("sqlite", isManual) = Batches("json", isManual)

---------------------------------------------------------------------------
(* A failing INSERT in the SQLite version: dbRun rejects, saveAssignment
   rethrows and assignChores ends with that error *)

\* the stores an assignChores run can leave when saveAssignment throws for the
\* k-th chore it assigns: the rows of the chores before it are inserted
\* already (each await saveAssignment is its own INSERT)
saveFailsAt(cfg, s, t, isManual, k) ==
    {SubSeq(r.store, 1, Len(s) + k - 1) :
        r \in {x \in assignChores("sqlite", cfg, s, t, isManual) :
                  x.outcome = "assigned" /\ k <= x.rows}}

InitFail == Init /\ version = "sqlite"

\* an assignChores run whose k-th INSERT fails
AssignChoresFails(isManual, k) ==
    /\ \E after \in saveFailsAt(config, store, now, isManual, k) :
          /\ Created(version, after) <= RecordBound(config)
          /\ store' = after
    /\ UNCHANGED <<version, config, now, sharedTaskSelections, buttons, inflight, started, probe>>

NextFail ==
    \/ Tick
    \/ \E isManual \in BOOLEAN : AssignChores(isManual)
    \/ \E isManual \in BOOLEAN, k \in 1..MaxScheduled : AssignChoresFails(isManual, k)
    \/ \E u \in People : DoneDM(u, "im")

SpecFail == InitFail /\ [][NextFail]_vars

\* C38: a SQLite assignChores run that ends with an error leaves no record of
\* that run in the store
C38_FailedRunLeavesNoRecord ==
    [][\A isManual \in BOOLEAN, k \in 1..MaxScheduled :
          AssignChoresFails(isManual, k) => store' = store]_vars

---------------------------------------------------------------------------
(* The shared-task dialog from its opening.  probe holds what is on the
   initiator's screen: the dialogs that have been opened, and those among
   them in which no name has been clicked yet. *)

InitDialog ==
    /\ version \in Versions
    /\ config \in Configs
    /\ now = 0
    /\ store = InitialStore(version)
    /\ sharedTaskSelections = <<>>
    /\ buttons = {}
    /\ inflight = {}
    /\ started = 0
    /\ probe = Just([open |-> {}, fresh |-> {}])

\* app.action('shared_task'): the handler posts the name buttons and touches
\* nothing else
SharedTask(userId, choreType) ==
    /\ probe' = Just([open  |-> probe[1].open \cup {selectionKey(userId, choreType)},
                      fresh |-> probe[1].fresh \cup {selectionKey(userId, choreType)}])
    /\ UNCHANGED <<version, config, now, store, sharedTaskSelections, buttons, inflight,
                   started>>

\* a click on a name button of an opened dialog: app.action(/select_U\w+/)
DialogSelect(userId, choreType, selectedUserId) ==
    LET key == selectionKey(userId, choreType)
        updated == toggleSelection(getSelection(sharedTaskSelections, key), selectedUserId)
    IN  /\ key \in probe[1].open
        /\ Created(version, store) < RecordBound(config)
        /\ key \in DOMAIN sharedTaskSelections
              \/ Cardinality(DOMAIN sharedTaskSelections) < MaxOpenDialogs
        /\ sharedTaskSelections' =
              [k \in DOMAIN sharedTaskSelections \cup {key} |->
                  IF k = key THEN updated ELSE sharedTaskSelections[k]]
        /\ probe' = Just([probe[1] EXCEPT !.fresh = probe[1].fresh \ {key}])
        /\ UNCHANGED <<version, config, now, store, buttons, inflight, started>>

\* the confirm button of an opened dialog
DialogConfirm(userId, choreType) ==
    /\ selectionKey(userId, choreType) \in probe[1].open
    /\ ConfirmShared(userId, choreType)

NextDialog ==
    \/ \E ty \in ChoreTypes : SharedTask(Initiator, ty)
    \/ \E ty \in ChoreTypes, sel \in Range(config.roommates) :
           DialogSelect(Initiator, ty, sel)
    \/ \E ty \in ChoreTypes : DialogConfirm(Initiator, ty)

SpecDialog == InitDialog /\ [][NextDialog]_vars

\* C39: when the shared-task dialog is opened, the selection its select
\* clicks will operate on is empty: nothing of an earlier, abandoned dialog of
\* the same initiator and chore type is carried over
C39_NewDialogStartsEmpty ==
    \A key \in probe[1].fresh :
        getSelection(sharedTaskSelections, key) = <<>>

---------------------------------------------------------------------------
\* C40: with sweeps at minute 0 of each hour and the strict 30-minute
\* lookahead, at most one reminder DM is attempted for every record and
\* assignee over the whole life of the record, whatever its due minute
C40_AtMostOneReminder ==
    \A m1, m2 \in probe[1].sent :
        (m1[1] = m2[1] /\ m1[2] = m2[2]) => m1[3] = m2[3]

\* the hour marks have passed the due time of a record that was reminded of
\* and is still not completed
C40_Witness ==
    /\ probe[1].clock = CronLast
    /\ \E m \in probe[1].sent :
          /\ ~store[m[1]].completed
          /\ store[m[1]].dueDate[1] < CronLast

====
